---- MODULE Spec2Model ----
(***************************************************************************)
(* Model of streamlit_app.py: the template sanitizer (load_script), the    *)
(* run pipeline (solve_model, total cost, result_data row build).          *)
(*                                                                         *)
(* Numbers.  A Python float x is modelled by the integer 1000*x; the value  *)
(* sets only hold values whose rounding to two decimals is not             *)
(* a decimal tie, or is a tie that is exact in binary (x.125, x.375), for  *)
(* which round() is round-half-even.  NaN is a value of its own.           *)
(*                                                                         *)
(* Text.  A template text is a sequence of tokens; the substrings the      *)
(* sanitizer looks for ('!pip', 'input(', 'print(') are single tokens,     *)
(* "\n" is the line break, " " is whitespace, "a" is any other character.  *)
(***************************************************************************)
EXTENDS Integers, Sequences, FiniteSets, TLC

VARIABLES txt, SCRIPT, again, spc,
          pc, ns, model, solveStatus, successShown, costShown, result_data

vars == <<txt, SCRIPT, again, spc,
          pc, ns, model, solveStatus, successShown, costShown, result_data>>

sanVars == <<txt, SCRIPT, again, spc>>
runVars == <<pc, ns, model, solveStatus, successShown, costShown, result_data>>

(***************************************************************************)
(* Bounds                                                                  *)
(***************************************************************************)
MaxLen == 4
MaxPumps == 2

(***************************************************************************)
(* Sanitizer: load_script                                                  *)
(***************************************************************************)
NL == "\n"
Alphabet == {NL, " ", "a", "!pip", "input(", "print("}

Texts == UNION {[1..n -> Alphabet] : n \in 0..MaxLen}

Contains(l, tok) == \E i \in 1..Len(l) : l[i] = tok

FirstPos(l, tok) == CHOOSE i \in 1..Len(l) : l[i] = tok /\ \A j \in 1..(i-1) : l[j] # tok

\* str.splitlines(): break at every line break; a final line break opens no
\* further (empty) line, and the empty text has no line.
RECURSIVE SplitLines(_)
SplitLines(t) ==
    IF t = <<>> THEN <<>>
    ELSE IF ~Contains(t, NL) THEN <<t>>
    ELSE LET i == FirstPos(t, NL)
         IN  <<SubSeq(t, 1, i - 1)>> \o SplitLines(SubSeq(t, i + 1, Len(t)))

\* The maximal runs without a line break, which are what '.*' can match:
\* n line breaks give n+1 runs, empty ones included.
RECURSIVE Segments(_)
Segments(t) ==
    IF ~Contains(t, NL) THEN <<t>>
    ELSE LET i == FirstPos(t, NL)
         IN  <<SubSeq(t, 1, i - 1)>> \o Segments(SubSeq(t, i + 1, Len(t)))

\* '\n'.join(lines)
RECURSIVE Join(_)
Join(lines) ==
    IF lines = <<>> THEN <<>>
    ELSE IF Len(lines) = 1 THEN lines[1]
    ELSE lines[1] \o <<NL>> \o Join(Tail(lines))

\* str.strip() (of a line: the only whitespace left in it is " ")
RECURSIVE LStrip(_)
LStrip(l) == IF l # <<>> /\ l[1] = " " THEN LStrip(Tail(l)) ELSE l

RECURSIVE RStrip(_)
RStrip(l) == IF l # <<>> /\ l[Len(l)] = " " THEN RStrip(SubSeq(l, 1, Len(l) - 1)) ELSE l

Strip(l) == RStrip(LStrip(l))

StartsWith(l, tok) == l # <<>> /\ l[1] = tok

\* l.strip().startswith('!pip')
IsPipLine(l) == StartsWith(Strip(l), "!pip")

MapSeq(Op(_), s) == [i \in 1..Len(s) |-> Op(s[i])]

\* [l for l in txt.splitlines() if not l.strip().startswith('!pip')]
DropPipLines(t) == SelectSeq(SplitLines(t), LAMBDA l : ~IsPipLine(l))

\* re.sub(r'.*input\(.*', '', code)
BlankInputLine(l) == IF Contains(l, "input(") THEN <<>> ELSE l
SubInput(code) == Join(MapSeq(BlankInputLine, Segments(code)))

\* re.sub(r'print\(.*', '', code)
CutPrint(l) == IF Contains(l, "print(") THEN SubSeq(l, 1, FirstPos(l, "print(") - 1) ELSE l
SubPrint(code) == Join(MapSeq(CutPrint, Segments(code)))

load_script(t) == SubPrint(SubInput(Join(DropPipLines(t))))

InitSan ==
    /\ txt \in Texts
    /\ SCRIPT = <<>>
    /\ again = <<>>
    /\ spc = "raw"
    /\ pc = "idle"
    /\ ns = <<>>
    /\ model = <<>>
    /\ solveStatus = "none"
    /\ successShown = FALSE
    /\ costShown = FALSE
    /\ result_data = <<>>

\* SCRIPT = load_script()
LoadScript ==
    /\ spc = "raw"
    /\ SCRIPT' = load_script(txt)
    /\ spc' = "loaded"
    /\ UNCHANGED <<txt, again>>
    /\ UNCHANGED runVars

\* load_script applied to its own output
Resanitize ==
    /\ spc = "loaded"
    /\ again' = load_script(SCRIPT)
    /\ spc' = "twice"
    /\ UNCHANGED <<txt, SCRIPT>>
    /\ UNCHANGED runVars

NextSan == LoadScript \/ Resanitize

SpecSan == InitSan /\ [][NextSan]_vars

(***************************************************************************)
(* Values: what a name can be bound to, and table cells                    *)
(***************************************************************************)
\* suffix is None / info.get(keyfld) of an absent index
None == "None"

\* Bindings. k = "absent": the name is not bound; "none": bound to None;
\* "num": a plain int/float; "sym": a Pyomo variable, parameter or expression
\* holding a value; "uninit": a Pyomo object with no value (pyo.value raises);
\* "other": any other object (pyo.value or float raises); "nan": float NaN.
Absent == [k |-> "absent", v |-> 0]
NoneObj == [k |-> "none", v |-> 0]
Num(x) == [k |-> "num", v |-> x]
Sym(x) == [k |-> "sym", v |-> x]
Uninit == [k |-> "uninit", v |-> 0]
Other == [k |-> "other", v |-> 0]
NaN == [k |-> "nan", v |-> 0]

\* Cells of a row. "float" holds thousandths and the sign bit (round() of a
\* negative value can give -0.0); "pct" is the string "<v/100>%" with two
\* decimals, v in hundredths of a percent; "nanpct" is the string "nan%".
NoneCell == [t |-> "None", v |-> 0, neg |-> FALSE]
IntCell(n) == [t |-> "int", v |-> n, neg |-> FALSE]
FloatCell(m, sign) == [t |-> "float", v |-> m, neg |-> sign]
NaNCell == [t |-> "nan", v |-> 0, neg |-> FALSE]
PctCell(h, sign) == [t |-> "pct", v |-> h, neg |-> sign]
NaNPctCell == [t |-> "nanpct", v |-> 0, neg |-> FALSE]

Abs(x) == IF x < 0 THEN -x ELSE x

(***************************************************************************)
(* Catalog: stations_info, params                                          *)
(***************************************************************************)
StationOrder == <<"Vadinar", "Jamnagar", "Rajkot", "Chotila", "Surendranagar", "Viramgam">>

stations_info ==
    [s \in {StationOrder[i] : i \in 1..Len(StationOrder)} |->
        CASE s = "Vadinar"       -> [idx |-> "1", dr_idx |-> "1"]
          [] s = "Jamnagar"      -> [idx |-> "2", dr_idx |-> "2"]
          [] s = "Rajkot"        -> [idx |-> "3", dr_idx |-> "3"]
          [] s = "Chotila"       -> [idx |-> "4", dr_idx |-> None]
          [] s = "Surendranagar" -> [idx |-> "5", dr_idx |-> "4"]
          [] s = "Viramgam"      -> [idx |-> "6", dr_idx |-> None]]

\* (the two cost labels are written without their rupee sign)
params == <<
    [label |-> "No. of Pumps",                    base |-> "NOP",       keyfld |-> "idx"],
    [label |-> "Drag Reduction (%)",              base |-> "DR",        keyfld |-> "dr_idx"],
    [label |-> "Maximum Allowable Operating Pressure (bar)", base |-> "MAOP", keyfld |-> "idx"],
    [label |-> "Velocity (m/s)",                  base |-> "v",         keyfld |-> "idx"],
    [label |-> "Reynolds Number",                 base |-> "Re",        keyfld |-> "idx"],
    [label |-> "Friction Factor",                 base |-> "f",         keyfld |-> "idx"],
    [label |-> "Dynamic Head Loss (m)",           base |-> "DH",        keyfld |-> "idx"],
    [label |-> "Head developed by each Pump (m)", base |-> "TDHA_PUMP", keyfld |-> "idx"],
    [label |-> "Pump Speed (RPM)",                base |-> "N",         keyfld |-> "idx"],
    [label |-> "Pump Efficiency (%)",             base |-> "EFFP",      keyfld |-> "idx"],
    [label |-> "Station Discharge Head (m)",      base |-> "SDHA",      keyfld |-> "idx"],
    [label |-> "Residual Head (m)",               base |-> "RH",        keyfld |-> "idx"],
    [label |-> "Power Cost",                      base |-> "OF_POWER",  keyfld |-> "idx"],
    [label |-> "DRA Cost",                        base |-> "OF_DRA",    keyfld |-> "idx"] >>

keys == [j \in 1..Len(params) |-> params[j].label]

IndexOf(seq, x) == CHOOSE j \in 1..Len(seq) : seq[j] = x

p_idx == IndexOf(keys, "No. of Pumps")
s_idx == IndexOf(keys, "Pump Speed (RPM)")
e_idx == IndexOf(keys, "Pump Efficiency (%)")
rh_idx == IndexOf(keys, "Residual Head (m)")

Bases == {params[j].base : j \in 1..Len(params)}
Suffixes == {"1", "2", "3", "4", "5", "6"}

\* f"{base}{suffix}"
VarName(base, suffix) == base \o suffix

VarNames == {VarName(b, i) : b \in Bases, i \in Suffixes}

(***************************************************************************)
(* Row build                                                               *)
(***************************************************************************)
\* Mutant of Lookup: the model's entity is looked up before the context.
Lookup_ModelFirst(varname) ==
    IF model[varname].k # "absent" THEN model[varname]
    ELSE IF ns[varname].k # "absent" THEN ns[varname]
    ELSE NoneObj

\* v_obj = ns.get(varname) if varname in ns else getattr(model, varname, None)
Lookup(varname) ==
    IF ns[varname].k # "absent" THEN ns[varname]
    ELSE IF model[varname].k # "absent" THEN model[varname]
    ELSE NoneObj

\* float(pyo.value(v_obj)) raises: no value, None, or an object float() rejects
ValueRaises(o) == o.k \in {"none", "uninit", "other"}

\* try: num = float(pyo.value(v_obj))
\* except: num = float(v_obj) if isinstance(v_obj, (int, float)) else None
\* The result is a cell without formatting: None, a float in thousandths, NaN.
Evaluate(o) ==
    IF ~ValueRaises(o)
    THEN IF o.k = "nan" THEN NaNCell ELSE FloatCell(o.v, o.v < 0)
    ELSE IF o.k \in {"num", "nan"}
         THEN (IF o.k = "nan" THEN NaNCell ELSE FloatCell(o.v, o.v < 0))
         ELSE NoneCell

Resolve(varname) == Evaluate(Lookup(varname))

\* Mutant of Trunc: rounding to the nearest integer.
Trunc_Nearest(x) == (x + 500) \div 1000

\* int(num): truncation toward zero (num in thousandths)
Trunc(x) == IF x >= 0 THEN x \div 1000 ELSE -((-x) \div 1000)

\* round(num, 2): to the nearest hundredth, a tie to the even one; the
\* result is again in thousandths
Round2(x) ==
    LET q == x \div 10
        r == x % 10
    IN  IF r < 5 THEN 10 * q
        ELSE IF r > 5 THEN 10 * (q + 1)
        ELSE IF q % 2 = 0 THEN 10 * q ELSE 10 * (q + 1)

\* int(num) raises ValueError for NaN, outside the try of the lookup
IntRaises(num) == num.t = "nan"

\* if label == 'No. of Pumps' and num is not None: num = int(num)
\* elif num is not None: num = round(num, 2)
Format(label, num) ==
    IF num.t = "None" THEN NoneCell
    ELSE IF label = "No. of Pumps"
         THEN (IF IntRaises(num) THEN NaNCell ELSE IntCell(Trunc(num.v)))
         ELSE (IF num.t = "nan" THEN NaNCell ELSE FloatCell(Round2(num.v), num.neg))

Suffix(station, j) == stations_info[station][params[j].keyfld]

\* for label, (base, keyfld) in params.items(): ... row.append(num)
Cell(station, j) ==
    IF Suffix(station, j) = None THEN NoneCell
    ELSE Format(params[j].label, Resolve(VarName(params[j].base, Suffix(station, j))))

RawRow(station) == [j \in 1..Len(params) |-> Cell(station, j)]

\* the loop body raises for this station: int() of a NaN pump count
RowRaises(station) ==
    \E j \in 1..Len(params) :
        /\ Suffix(station, j) # None
        /\ params[j].label = "No. of Pumps"
        /\ IntRaises(Resolve(VarName(params[j].base, Suffix(station, j))))

NonPumping == {"Chotila", "Viramgam"}

\* row[p_idx] == 0
EqZero(c) == c.t \in {"int", "float"} /\ c.v = 0

\* Mutant of OverrideRH: the resolved residual head is kept.
OverrideRH_Solved(station, row) == row

\* if station == 'Vadinar': row[rh_idx] = 50.00
OverrideRH(station, row) ==
    IF station = "Vadinar" THEN [row EXCEPT ![rh_idx] = FloatCell(50000, FALSE)] ELSE row

\* Mutant of OnlyRH: the resolved cells of the non-pumping stations are kept.
OnlyRH_KeepAll(station, row) == row

\* if station in ['Chotila', 'Viramgam']: keep only row[rh_idx]
OnlyRH(station, row) ==
    IF station \in NonPumping
    THEN [j \in 1..Len(keys) |-> IF j = rh_idx THEN row[rh_idx] ELSE NoneCell]
    ELSE row

\* Mutant of ZeroPump: only the speed is forced to zero.
ZeroPump_SpeedOnly(station, row) ==
    IF station \notin {"Chotila", "Viramgam"} /\ row[p_idx].t \in {"int", "float"} /\ row[p_idx].v = 0
    THEN [row EXCEPT ![s_idx] = FloatCell(0, FALSE)]
    ELSE row

\* if station not in [...] and row[p_idx] == 0: speed 0.00, efficiency '0.00%'
ZeroPump(station, row) ==
    IF station \notin NonPumping /\ EqZero(row[p_idx])
    THEN [row EXCEPT ![s_idx] = FloatCell(0, FALSE), ![e_idx] = PctCell(0, FALSE)]
    ELSE row

\* f"{eff_frac*100:.2f}%" if eff_frac is not None else None
PercentString(eff_frac) ==
    IF eff_frac.t = "None" THEN NoneCell
    ELSE IF eff_frac.t = "nan" THEN NaNPctCell
    ELSE PctCell(Abs(eff_frac.v) * 10, eff_frac.neg)

\* if station not in [...] and row[p_idx] != 0: efficiency fraction to percent
EffPercent(station, row) ==
    IF station \notin NonPumping /\ ~EqZero(row[p_idx])
    THEN [row EXCEPT ![e_idx] = PercentString(row[e_idx])]
    ELSE row

Row(station) ==
    EffPercent(station, ZeroPump(station, OnlyRH(station, OverrideRH(station, RawRow(station)))))

\* result_data: one entry per station, in insertion order
BuildResult == [i \in 1..Len(StationOrder) |-> [station |-> StationOrder[i], row |-> Row(StationOrder[i])]]

BuildRaises == \E i \in 1..Len(StationOrder) : RowRaises(StationOrder[i])

(***************************************************************************)
(* What the template binds.  The names of one index take the combinations  *)
(* below, in the context, on the model, or in both (the model then holds   *)
(* another value under the same name); every other name is a model entity  *)
(* with a value.  A pump focus varies the pump count, the efficiency and   *)
(* the speed of the index together; a kind focus varies one name of any    *)
(* kind over every sort of binding.                                        *)
(***************************************************************************)
NopVals == UNION {{1000 * k - 1, 1000 * k, 1000 * k + 500} : k \in 0..MaxPumps} \cup {-999, -1500}
NopObjs == {Sym(x) : x \in NopVals} \cup {Absent, NoneObj, Uninit, NaN}

EffVals == {0, 125, 850, 857}
EffObjs == {Sym(x) : x \in EffVals} \cup {Num(850), Absent, Uninit}

SpeedObjs == {Sym(12346), Absent}

KindObjs == {Sym(12346), Sym(375), Num(-4), Absent, NoneObj, Uninit, Other, NaN}

Decoy == Sym(7125)

DefaultEntity ==
    [n \in VarNames |-> IF n \in {VarName("EFFP", i) : i \in Suffixes} THEN Sym(800) ELSE Sym(1500)]

Places == {"ns", "model", "both"}

PumpFocus(i, nopO, effO, nO) ==
    [n \in {VarName("NOP", i), VarName("EFFP", i), VarName("N", i)} |->
        IF n = VarName("NOP", i) THEN nopO
        ELSE IF n = VarName("EFFP", i) THEN effO
        ELSE nO]

KindFocus(i, q, qO) == [n \in {VarName(q, i)} |-> qO]

Focuses ==
    {PumpFocus(i, nopO, effO, nO) : i \in Suffixes, nopO \in NopObjs, effO \in EffObjs, nO \in SpeedObjs}
    \cup {KindFocus(i, q, qO) : i \in Suffixes, q \in Bases, qO \in KindObjs}

NsOf(foc, place, bound) ==
    [n \in VarNames \cup {"model"} |->
        IF n = "model" THEN (IF bound THEN Other ELSE Absent)
        ELSE IF n \in DOMAIN foc /\ place # "model" THEN foc[n]
        ELSE Absent]

ModelOf(foc, place, objf) ==
    [n \in VarNames \cup {"Objf"} |->
        IF n = "Objf" THEN objf
        ELSE IF n \in DOMAIN foc
             THEN (IF place = "ns" THEN Absent ELSE IF place = "model" THEN foc[n] ELSE Decoy)
        ELSE DefaultEntity[n]]

(***************************************************************************)
(* The run: solve_model, total cost, table                                 *)
(***************************************************************************)
NoTable == <<>>

Init ==
    /\ txt = <<>>
    /\ SCRIPT = <<>>
    /\ again = <<>>
    /\ spc = "loaded"
    /\ pc = "idle"
    /\ ns = <<>>
    /\ model = <<>>
    /\ solveStatus = "none"
    /\ successShown = FALSE
    /\ costShown = FALSE
    /\ result_data = NoTable

\* exec(SCRIPT, ns) raises
ExecRaises ==
    /\ pc = "idle"
    /\ pc' = "aborted"
    /\ solveStatus' = "not run"
    /\ UNCHANGED <<ns, model, successShown, costShown, result_data>>
    /\ UNCHANGED sanVars

\* exec(SCRIPT, ns); model = ns['model']
Exec ==
    /\ pc = "idle"
    /\ \E foc \in Focuses, place \in Places, bound \in BOOLEAN, objf \in {Sym(98765), Absent} :
              /\ ns' = NsOf(foc, place, bound)
              /\ IF bound
                 THEN /\ model' = ModelOf(foc, place, objf)
                      /\ pc' = "instantiated"
                      /\ UNCHANGED solveStatus
                 ELSE /\ UNCHANGED model
                      /\ pc' = "aborted"
                      /\ solveStatus' = "not run"
    /\ UNCHANGED <<successShown, costShown, result_data>>
    /\ UNCHANGED sanVars

SolveStatuses == {"ok", "Infeasible", "Timeout", "BackendUnavailable"}

\* solver.solve(model, opt='bonmin', tee=False): the call raises, or it
\* returns a results object that solve_model drops.  An unreachable service
\* raises; an optimal solve returns; an infeasible or time-limited solve is
\* reported by the solver in the results object or by an exception.
Solve ==
    /\ pc = "instantiated"
    /\ \E status \in SolveStatuses, raises \in BOOLEAN :
          /\ status = "ok" => ~raises
          /\ status = "BackendUnavailable" => raises
          /\ solveStatus' = status
          /\ pc' = IF raises THEN "aborted" ELSE "solved"
    /\ UNCHANGED <<ns, model, successShown, costShown, result_data>>
    /\ UNCHANGED sanVars

\* st.success(...); total_cost = pyo.value(model.Objf); st.markdown(...)
ShowCost ==
    /\ pc = "solved"
    /\ successShown' = TRUE
    /\ IF model["Objf"].k \in {"sym", "num", "nan"}
       THEN costShown' = TRUE /\ pc' = "cost"
       ELSE UNCHANGED costShown /\ pc' = "aborted"
    /\ UNCHANGED <<ns, model, solveStatus, result_data>>
    /\ UNCHANGED sanVars

\* the row loop, pd.DataFrame(result_data, index=keys), st.table(df)
BuildTable ==
    /\ pc = "cost"
    /\ IF BuildRaises
       THEN pc' = "aborted" /\ UNCHANGED result_data
       ELSE pc' = "done" /\ result_data' = BuildResult
    /\ UNCHANGED <<ns, model, solveStatus, successShown, costShown>>
    /\ UNCHANGED sanVars

Next == ExecRaises \/ Exec \/ Solve \/ ShowCost \/ BuildTable

Spec == Init /\ [][Next]_vars

(***************************************************************************)
(* Sanitizer claims                                                        *)
(***************************************************************************)

\* C8: sanitizer idempotence: applying load_script to its own output gives
\* the same text, sanitize(sanitize(x)) = sanitize(x), for every template x.
C8_SanitizerIdempotent == spc = "twice" => again = SCRIPT

\* A line that is a package-setup directive, a statement that reads input
\* (any line with a call of input( is counted as one), or a statement whose
\* sole effect is console output (the line starts with the call of print().
IsPrintStmt(l) == StartsWith(Strip(l), "print(")
IsInputStmt(l) == Contains(l, "input(")
Removable(l) == IsPipLine(l) \/ IsInputStmt(l) \/ IsPrintStmt(l)

NonBlank(lines) == SelectSeq(lines, LAMBDA l : Strip(l) # <<>>)

\* C9: sanitizer pass-through: only removable lines are removed; every other
\* line of the template, one that merely contains 'print(' inside a longer
\* statement included, is in the output unchanged and in the same order
\* (whitespace-only lines are left out of the comparison on both sides).
C9_PassThrough ==
    spc # "raw" =>
        NonBlank(Segments(SCRIPT))
            = NonBlank(SelectSeq(SplitLines(txt), LAMBDA l : ~Removable(l)))

(***************************************************************************)
(* Run claims                                                              *)
(***************************************************************************)
Stations == {StationOrder[i] : i \in 1..Len(StationOrder)}
Pumping == Stations \ NonPumping

RowOf(s) == result_data[IndexOf(StationOrder, s)].row

\* The binding a name stands for: the context's when the context binds the
\* name, else the model's, else none.
IsBound(f, n) == f[n].k # "absent"
Chosen(n) == IF IsBound(ns, n) THEN ns[n] ELSE IF IsBound(model, n) THEN model[n] ELSE NoneObj

\* ... and whether it has a (finite) numeric value
HasNumber(o) == o.k \in {"num", "sym"}

\* The name of station s for parameter j: prefix, then the station's index,
\* drag reduction using the station's dr index.
NameOf(s, j) ==
    params[j].base \o (IF params[j].base = "DR" THEN stations_info[s].dr_idx ELSE stations_info[s].idx)

dr_pos == IndexOf(keys, "Drag Reduction (%)")

\* C1: zero-propagation: for every pumping station whose pump-count cell is
\* 0, the row has Pump Speed 0.00 and Pump Efficiency "0.00%", whatever the
\* bindings of N<idx> and EFFP<idx> are.
C1_ZeroPropagation ==
    pc = "done" =>
        \A s \in Pumping :
            RowOf(s)[p_idx] = IntCell(0) =>
                /\ RowOf(s)[s_idx] = FloatCell(0, FALSE)
                /\ RowOf(s)[e_idx] = PctCell(0, FALSE)

C1_Witness ==
    /\ pc = "done"
    /\ \E s \in Pumping :
          /\ RowOf(s)[p_idx] = IntCell(0)
          /\ HasNumber(Chosen(NameOf(s, s_idx))) /\ Chosen(NameOf(s, s_idx)).v # 0
          /\ HasNumber(Chosen(NameOf(s, e_idx))) /\ Chosen(NameOf(s, e_idx)).v # 0

\* C2: applicability: for Chotila and Viramgam every cell other than Residual
\* Head is null, and Drag Reduction is null for every station without a dr
\* index, also when the name built from the prefix and the station's index
\* is bound to a number.
C2_Applicability ==
    pc = "done" =>
        /\ \A s \in NonPumping : \A j \in 1..Len(keys) : j # rh_idx => RowOf(s)[j] = NoneCell
        /\ \A s \in Stations : stations_info[s].dr_idx = None => RowOf(s)[dr_pos] = NoneCell

C2_Witness ==
    /\ pc = "done"
    /\ \E s \in NonPumping : \E j \in 1..Len(keys) :
          /\ j \notin {rh_idx, dr_pos}
          /\ IsBound(ns, NameOf(s, j)) /\ HasNumber(ns[NameOf(s, j)])
          /\ IsBound(model, NameOf(s, j)) /\ HasNumber(model[NameOf(s, j)])
          /\ RowOf(s)[j] = NoneCell

\* C3: fixed override: in every table the Residual Head cell of Vadinar is
\* 50.00, whatever RH1 is bound to and whatever Vadinar's pump count is.
C3_FixedOverride == pc = "done" => RowOf("Vadinar")[rh_idx] = FloatCell(50000, FALSE)

C3_Witness ==
    /\ pc = "done"
    /\ IsBound(ns, "RH1") /\ HasNumber(ns["RH1"]) /\ ns["RH1"].v # 50000
    /\ RowOf("Vadinar")[rh_idx] = FloatCell(50000, FALSE)

\* C4: efficiency formatting: for every pumping station whose pump-count
\* cell is not 0 and whose EFFP<idx> resolves to a fraction e in [0, 1], the
\* cell is the string of e*100 with two decimals and "%", the two decimals
\* being those of the percentage of the raw fraction; unresolved gives null.
C4_EfficiencyPercent ==
    pc = "done" =>
        \A s \in Pumping :
            ~EqZero(RowOf(s)[p_idx]) =>
                LET o == Chosen(NameOf(s, e_idx))
                IN  /\ (HasNumber(o) /\ 0 <= o.v /\ o.v <= 1000) =>
                          RowOf(s)[e_idx] = PctCell(o.v * 10, FALSE)
                    /\ o.k \in {"none", "uninit", "other"} => RowOf(s)[e_idx] = NoneCell

\* C5: fatal errors: when instantiation fails (solveStatus "not run") or the
\* solve fails (Infeasible, Timeout, BackendUnavailable), neither the success
\* message nor the total cost nor the table is produced.
C5_FatalErrorsAbort ==
    solveStatus \notin {"none", "ok"} =>
        ~successShown /\ ~costShown /\ result_data = NoTable

\* C6: non-fatal degradation: every run that gets to the table build ends
\* with the table of 6 stations by 14 labels in catalog order; a name that
\* is unbound or has no numeric value gives a null cell and does not stop
\* the other cells and rows from being produced.
C6_TableAlwaysProduced ==
    (costShown /\ pc # "cost") =>
        /\ pc = "done"
        /\ Len(result_data) = 6
        /\ \A i \in 1..Len(result_data) :
              /\ result_data[i].station = StationOrder[i]
              /\ Len(result_data[i].row) = 14

\* C7: resolution order: for every name built from a prefix and the
\* station's index (drag reduction: its dr index), the cell shows the value
\* of the context's binding when the context binds the name, else of the
\* model's entity, else null; a symbolic value is evaluated, a plain number
\* taken as it is.  (Cells a later rule overwrites are not compared.)
C7_Expected(label, o) ==
    IF o.k = "nan" THEN NaNCell
    ELSE IF ~HasNumber(o) THEN NoneCell
    ELSE IF label = "No. of Pumps" THEN IntCell(Trunc(o.v))
    ELSE FloatCell(Round2(o.v), o.v < 0)

C7_Compared(s, j) ==
    /\ Suffix(s, j) # None
    /\ IF s \in NonPumping THEN j = rh_idx
       ELSE j \notin {s_idx, e_idx} /\ ~(s = "Vadinar" /\ j = rh_idx)

C7_ResolutionOrder ==
    pc = "done" =>
        \A s \in Stations : \A j \in 1..Len(keys) :
            C7_Compared(s, j) => RowOf(s)[j] = C7_Expected(keys[j], Chosen(NameOf(s, j)))

C7_Witness ==
    /\ pc = "done"
    /\ \E s \in Stations : \E j \in 1..Len(keys) :
          /\ C7_Compared(s, j)
          /\ params[j].base = "DR"
          /\ stations_info[s].dr_idx # stations_info[s].idx
          /\ IsBound(ns, NameOf(s, j)) /\ ns[NameOf(s, j)] = Num(-4)
          /\ IsBound(model, NameOf(s, j)) /\ HasNumber(model[NameOf(s, j)])
          /\ RowOf(s)[j] = FloatCell(0, TRUE)

\* C10: pump-count truncation: the No. of Pumps cell is the resolved value
\* cut toward zero; a value strictly between -1 and 1 shows as 0 and forces
\* speed 0.00 and efficiency "0.00%"; a value just below a pump count k >= 1
\* shows as k-1.
C10_Truncation ==
    pc = "done" =>
        \A s \in Pumping :
            LET o == Chosen(NameOf(s, p_idx))
                c == RowOf(s)[p_idx]
            IN  HasNumber(o) =>
                    /\ c.t = "int"
                    /\ o.v >= 0 => (1000 * c.v <= o.v /\ o.v < 1000 * (c.v + 1))
                    /\ o.v <= 0 => (1000 * (c.v - 1) < o.v /\ o.v <= 1000 * c.v)
                    /\ (-1000 < o.v /\ o.v < 1000) =>
                          /\ c = IntCell(0)
                          /\ RowOf(s)[s_idx] = FloatCell(0, FALSE)
                          /\ RowOf(s)[e_idx] = PctCell(0, FALSE)
                    /\ \A k \in 1..(MaxPumps + 1) : o.v = 1000 * k - 1 => c = IntCell(k - 1)

C10_Witness ==
    /\ pc = "done"
    /\ \E s \in Pumping :
          /\ Chosen(NameOf(s, p_idx)) = Sym(999)
          /\ RowOf(s)[p_idx] = IntCell(0)
          /\ Chosen(NameOf(s, s_idx)) = Sym(12346)
          /\ RowOf(s)[s_idx] = FloatCell(0, FALSE)

====
